---- MODULE Spec2Model ----
(***************************************************************************)
(* Model of the code-insights data model: the Report and Annotation        *)
(* builders, the shared length validation, and the JSON encoding that the  *)
(* serde derives produce.                                                  *)
(***************************************************************************)
EXTENDS Integers, Sequences, FiniteSets, TLC

VARIABLES builder, built, out, decoded, out2, container, cout, hist

vars == <<builder, built, out, decoded, out2, container, cout, hist>>

(***************************************************************************)
(* Bounds of the model.                                                    *)
(***************************************************************************)
\* text lengths and data sizes up to Over past a limit are tried
Over == 1
\* a text holds at most MaxWide characters encoded on more than one byte
MaxWide == 1
\* number of UTF-8 bytes of such a character
WideWidth == 2
\* length of the short texts ("Title")
ShortLen == 5

(***************************************************************************)
(* Limits.                                                                 *)
(***************************************************************************)
TITLE_LIMIT == 450
DETAILS_LIMIT == 2000
DATA_LIMIT == 6
REPORTER_LIMIT == 450
MESSAGE_LIMIT == 2000
EXTERNAL_ID_LIMIT == 450

(***************************************************************************)
(* Option, Result, Error.                                                  *)
(***************************************************************************)
None == [some |-> FALSE]
Some(x) == [some |-> TRUE, v |-> x]

Ok(x) == [ok |-> TRUE, v |-> x]
Err(e) == [ok |-> FALSE, e |-> e]

FieldTooLong(name, len, limit) ==
    [kind |-> "FieldTooLong", name |-> name, len |-> len, limit |-> limit]
SerdeError == [kind |-> "SerdeError"]

(***************************************************************************)
(* Text.  A String is represented by its UTF-8 composition: the number of  *)
(* characters it holds and how many of them are encoded on WideWidth bytes *)
(* (the others take one byte each).                                        *)
(***************************************************************************)
Text(c, w) == [chars |-> c, wide |-> w]

\* String::len(): the number of bytes of the UTF-8 encoding
StrLen(s) == (s.chars - s.wide) + s.wide * WideWidth

(***************************************************************************)
(* validation.rs: the two macros.  Each expands to a check that returns    *)
(* early with FieldTooLong; here the check yields a Result and the caller  *)
(* chains the checks with AndThen (the early return).                      *)
(***************************************************************************)
AndThen(r, next) == IF r.ok THEN next ELSE r

\* variant: the comparison is >= instead of >
validate_field_ge(name, value, limit) ==
    IF StrLen(value) >= limit
    THEN Err(FieldTooLong(name, StrLen(value), limit))
    ELSE Ok("unit")
validate_field(name, value, limit) ==
    IF StrLen(value) > limit
    THEN Err(FieldTooLong(name, StrLen(value), limit))
    ELSE Ok("unit")

\* variant: len and limit are exchanged in the error
validate_optional_field_swapped(name, opt, limit) ==
    IF opt.some /\ StrLen(opt.v) > limit
    THEN Err(FieldTooLong(name, limit, StrLen(opt.v)))
    ELSE Ok("unit")
validate_optional_field(name, opt, limit) ==
    IF opt.some /\ StrLen(opt.v) > limit
    THEN Err(FieldTooLong(name, StrLen(opt.v), limit))
    ELSE Ok("unit")

(***************************************************************************)
(* report.rs: enums, Data, Parameter.                                      *)
(***************************************************************************)
ReportResult == {"Pass", "Fail"}
ReportType == {"Security", "Coverage", "Test", "Bug"}

\* a Parameter is its variant and the payload slots of all variants (the
\* slots of the other variants hold a default)
Param(variant, b, n, s, href) ==
    [variant |-> variant, b |-> b, n |-> n, s |-> s, href |-> href]
Boolean(b) == Param("Boolean", b, 0, Text(0, 0), Text(0, 0))
Date(n) == Param("Date", FALSE, n, Text(0, 0), Text(0, 0))
Duration(n) == Param("Duration", FALSE, n, Text(0, 0), Text(0, 0))
Link(linktext, href) == Param("Link", FALSE, 0, linktext, href)
Number(n) == Param("Number", FALSE, n, Text(0, 0), Text(0, 0))
Percentage(n) == Param("Percentage", FALSE, n, Text(0, 0), Text(0, 0))
TextParam(s) == Param("Text", FALSE, 0, s, Text(0, 0))

Data(title, parameter) == [title |-> title, parameter |-> parameter]

\* the parameters the crate's own tests serialize, one per variant
SampleParams ==
    << Boolean(FALSE), Date(1582841968), Duration(3600),
       Link(Text(9, 0), Text(17, 0)), Number(1234), Percentage(50),
       TextParam(Text(11, 0)) >>

DataVec(n, k) ==
    [i \in 1..n |-> Data(Text(ShortLen, 0),
                         SampleParams[((i + k - 1) % Len(SampleParams)) + 1])]

(***************************************************************************)
(* Inputs of the operations.                                               *)
(***************************************************************************)
\* texts for a field of limit L: a short one, the ones of L and more
\* one-byte characters, and the ones of L characters some of which are wide
LimitTexts(L) ==
    {Text(ShortLen, 0)}
    \cup {Text(c, 0) : c \in L..(L + Over)}
    \cup {Text(L, w) : w \in 1..MaxWide}

\* texts for a field without limit
FreeTexts == {Text(ShortLen, 0)}

\* the largest value of the u8 that Parameter::Percentage holds
U8_MAX == 255

\* the percentages tried besides the tests' 50: past 100, and the largest u8
PercentInputs == {100 + Over, U8_MAX}

DataInputs ==
    {DataVec(0, 0)}
    \cup {DataVec(DATA_LIMIT, k) : k \in {0, 1}}
    \cup {DataVec(n, 0) : n \in (DATA_LIMIT + 1)..(DATA_LIMIT + Over)}
    \cup {<<Data(Text(ShortLen, 0), Percentage(n))>> : n \in PercentInputs}

(***************************************************************************)
(* report.rs: Report::validate_fields and ReportBuilder::validate_fields.  *)
(***************************************************************************)
\* variant: the comparison is >= instead of >
validate_data_ge(opt) ==
    IF opt.some /\ Len(opt.v) >= DATA_LIMIT
    THEN Err(FieldTooLong("data", Len(opt.v), DATA_LIMIT))
    ELSE Ok("unit")
validate_data(opt) ==
    IF opt.some /\ Len(opt.v) > DATA_LIMIT
    THEN Err(FieldTooLong("data", Len(opt.v), DATA_LIMIT))
    ELSE Ok("unit")

\* variant: the data check runs first
ReportBuilder_validate_fields_dataFirst(self) ==
    AndThen(validate_data(self.data),
    AndThen(validate_field("title", self.title, TITLE_LIMIT),
    AndThen(validate_optional_field("details", self.details, DETAILS_LIMIT),
            validate_optional_field("reporter", self.reporter, REPORTER_LIMIT))))
ReportBuilder_validate_fields(self) ==
    AndThen(validate_field("title", self.title, TITLE_LIMIT),
    AndThen(validate_optional_field("details", self.details, DETAILS_LIMIT),
    AndThen(validate_optional_field("reporter", self.reporter, REPORTER_LIMIT),
            validate_data(self.data))))

\* variant: the value is not validated again
Report_validate_fields_none(self) == Ok("unit")
Report_validate_fields(self) ==
    AndThen(validate_field("title", self.title, TITLE_LIMIT),
    AndThen(validate_optional_field("details", self.details, DETAILS_LIMIT),
    AndThen(validate_optional_field("reporter", self.reporter, REPORTER_LIMIT),
            validate_data(self.data))))

\* ReportBuilder::build: validate, then move every field into a Report
ReportBuilder_build(self) ==
    AndThen(ReportBuilder_validate_fields(self),
            Ok([title |-> self.title, details |-> self.details,
                result |-> self.result, data |-> self.data,
                reporter |-> self.reporter, link |-> self.link,
                logo_url |-> self.logo_url, report_type |-> self.report_type]))

(***************************************************************************)
(* JSON documents.  A value is its kind and the slots of all kinds (the    *)
(* slots of the other kinds hold a default).  A string is either one of    *)
(* the fixed literals (lit) or a text (s); an object is the sequence of    *)
(* its members <<key, value>> in the order the encoder emits them.         *)
(***************************************************************************)
JV(t, b, n, lit, s, arr, obj) ==
    [t |-> t, b |-> b, n |-> n, lit |-> lit, s |-> s, arr |-> arr, obj |-> obj]
JNull == JV("null", FALSE, 0, "", Text(0, 0), <<>>, <<>>)
JBool(b) == JV("bool", b, 0, "", Text(0, 0), <<>>, <<>>)
JNum(n) == JV("number", FALSE, n, "", Text(0, 0), <<>>, <<>>)
JLit(lit) == JV("string", FALSE, 0, lit, Text(0, 0), <<>>, <<>>)
JStr(s) == JV("string", FALSE, 0, "", s, <<>>, <<>>)
JArr(arr) == JV("array", FALSE, 0, "", Text(0, 0), arr, <<>>)
JObj(obj) == JV("object", FALSE, 0, "", Text(0, 0), <<>>, obj)

Keys(members) == {members[i][1] : i \in DOMAIN members}
HasKey(members, key) == \E i \in DOMAIN members : members[i][1] = key
Get(members, key) ==
    members[CHOOSE i \in DOMAIN members : members[i][1] = key][2]

\* a struct field without skip_serializing_if
Member(key, value) == << <<key, value>> >>

\* an Option field without skip_serializing_if: None is emitted as null
OptMember_null(key, opt, json) ==
    IF opt.some THEN << <<key, json>> >> ELSE << <<key, JNull>> >>

\* an Option field with skip_serializing_if = "Option::is_none"; json is the
\* encoding of the value the option holds
OptMember(key, opt, json) ==
    IF opt.some THEN << <<key, json>> >> ELSE <<>>

(***************************************************************************)
(* report.rs: the Serialize derives.                                       *)
(***************************************************************************)
\* #[serde(rename_all = "UPPERCASE")] on ReportResult
ReportResult_serialize(r) ==
    CASE r = "Pass" -> "PASS" [] r = "Fail" -> "FAIL"

\* #[serde(rename_all = "UPPERCASE")] on ReportType
ReportType_serialize(r) ==
    CASE r = "Security" -> "SECURITY" [] r = "Coverage" -> "COVERAGE"
      [] r = "Test" -> "TEST" [] r = "Bug" -> "BUG"

\* #[serde(tag = "type", rename_all = "UPPERCASE")] on Parameter
\* variant: the tags of Date and Duration are exchanged
Parameter_tag_swapped(p) ==
    CASE p.variant = "Boolean" -> "BOOLEAN" [] p.variant = "Date" -> "DURATION"
      [] p.variant = "Duration" -> "DATE" [] p.variant = "Link" -> "LINK"
      [] p.variant = "Number" -> "NUMBER"
      [] p.variant = "Percentage" -> "PERCENTAGE" [] p.variant = "Text" -> "TEXT"
Parameter_tag(p) ==
    CASE p.variant = "Boolean" -> "BOOLEAN" [] p.variant = "Date" -> "DATE"
      [] p.variant = "Duration" -> "DURATION" [] p.variant = "Link" -> "LINK"
      [] p.variant = "Number" -> "NUMBER"
      [] p.variant = "Percentage" -> "PERCENTAGE" [] p.variant = "Text" -> "TEXT"

\* #[serde(content = "value")] on Parameter: the payload of the variant
Parameter_content(p) ==
    CASE p.variant = "Boolean" -> JBool(p.b)
      [] p.variant \in {"Date", "Duration", "Number", "Percentage"} -> JNum(p.n)
      [] p.variant = "Link" ->
            JObj(Member("linktext", JStr(p.s)) \o Member("href", JStr(p.href)))
      [] p.variant = "Text" -> JStr(p.s)

Parameter_serialize(p) ==
    Member("type", JLit(Parameter_tag(p))) \o Member("value", Parameter_content(p))

\* Data: title, then the members of the parameter (#[serde(flatten)])
Data_serialize(d) ==
    JObj(Member("title", JStr(d.title)) \o Parameter_serialize(d.parameter))

DataVec_serialize(v) == JArr([i \in DOMAIN v |-> Data_serialize(v[i])])

ReportResult_json(r) == JLit(ReportResult_serialize(r))
ReportType_json(r) == JLit(ReportType_serialize(r))

\* Report: #[serde(rename_all = "camelCase")], fields in declaration order
Report_serialize(self) ==
    Member("title", JStr(self.title))
    \o OptMember("details", self.details, JStr(self.details.v))
    \o OptMember("result", self.result, ReportResult_json(self.result.v))
    \o OptMember("data", self.data, DataVec_serialize(self.data.v))
    \o OptMember("reporter", self.reporter, JStr(self.reporter.v))
    \o OptMember("link", self.link, JStr(self.link.v))
    \o OptMember("logoUrl", self.logo_url, JStr(self.logo_url.v))
    \o OptMember("reportType", self.report_type, ReportType_json(self.report_type.v))

\* TryFrom<Report> for String / for Value: validate, then encode
Report_try_from(value) ==
    AndThen(Report_validate_fields(value), Ok(Report_serialize(value)))

(***************************************************************************)
(* report.rs: the Deserialize derives (the construction path that runs no  *)
(* validation).  A field of type Option is None when its key is missing or *)
(* null; the required title must be present.                               *)
(***************************************************************************)
\* value is the decoding of the member of that key
Field(members, key, value) ==
    IF HasKey(members, key) /\ Get(members, key).t # "null"
    THEN Some(value)
    ELSE None

Text_deserialize(j) == j.s

ReportResult_deserialize(j) ==
    CHOOSE r \in ReportResult : ReportResult_serialize(r) = j.lit

ReportType_deserialize(j) ==
    CHOOSE r \in ReportType : ReportType_serialize(r) = j.lit

ParameterVariants ==
    {"Boolean", "Date", "Duration", "Link", "Number", "Percentage", "Text"}

\* adjacently tagged: the variant from "type", its payload from "value"
Parameter_deserialize(members) ==
    LET tag == Get(members, "type").lit
        variant == CHOOSE v \in ParameterVariants :
                       Parameter_tag(Param(v, FALSE, 0, Text(0, 0), Text(0, 0))) = tag
        content == Get(members, "value")
    IN  CASE variant = "Boolean" -> Boolean(content.b)
          [] variant = "Date" -> Date(content.n)
          [] variant = "Duration" -> Duration(content.n)
          [] variant = "Link" -> Link(Get(content.obj, "linktext").s,
                                      Get(content.obj, "href").s)
          [] variant = "Number" -> Number(content.n)
          [] variant = "Percentage" -> Percentage(content.n)
          [] variant = "Text" -> TextParam(content.s)

Data_deserialize(j) ==
    Data(Get(j.obj, "title").s, Parameter_deserialize(j.obj))

DataVec_deserialize(j) == [i \in DOMAIN j.arr |-> Data_deserialize(j.arr[i])]

\* variant: the keys are not renamed to camelCase
Report_deserialize_snake(members) ==
    IF ~(HasKey(members, "title") /\ Get(members, "title").t = "string")
    THEN Err(SerdeError)
    ELSE Ok([title |-> Get(members, "title").s,
             details |-> Field(members, "details",
                   Text_deserialize(Get(members, "details"))),
             result |-> Field(members, "result",
                   ReportResult_deserialize(Get(members, "result"))),
             data |-> Field(members, "data",
                   DataVec_deserialize(Get(members, "data"))),
             reporter |-> Field(members, "reporter",
                   Text_deserialize(Get(members, "reporter"))),
             link |-> Field(members, "link",
                   Text_deserialize(Get(members, "link"))),
             logo_url |-> Field(members, "logo_url",
                   Text_deserialize(Get(members, "logo_url"))),
             report_type |-> Field(members, "report_type",
                   ReportType_deserialize(Get(members, "report_type")))])
Report_deserialize(members) ==
    IF ~(HasKey(members, "title") /\ Get(members, "title").t = "string")
    THEN Err(SerdeError)
    ELSE Ok([title |-> Get(members, "title").s,
             details |-> Field(members, "details",
                   Text_deserialize(Get(members, "details"))),
             result |-> Field(members, "result",
                   ReportResult_deserialize(Get(members, "result"))),
             data |-> Field(members, "data",
                   DataVec_deserialize(Get(members, "data"))),
             reporter |-> Field(members, "reporter",
                   Text_deserialize(Get(members, "reporter"))),
             link |-> Field(members, "link",
                   Text_deserialize(Get(members, "link"))),
             logo_url |-> Field(members, "logoUrl",
                   Text_deserialize(Get(members, "logoUrl"))),
             report_type |-> Field(members, "reportType",
                   ReportType_deserialize(Get(members, "reportType")))])

(***************************************************************************)
(* annotation.rs.                                                          *)
(***************************************************************************)
Severity == {"Low", "Medium", "High"}
Type == {"Vulnerability", "CodeSmell", "Bug"}

\* the u32 line numbers tried
Lines == {0, 42}

AnnotationBuilder_validate_fields(self) ==
    AndThen(validate_field("message", self.message, MESSAGE_LIMIT),
            validate_optional_field("external_id", self.external_id,
                                    EXTERNAL_ID_LIMIT))

\* variant: the value checks its message only
Annotation_validate_fields_messageOnly(self) ==
    validate_field("message", self.message, MESSAGE_LIMIT)
Annotation_validate_fields(self) ==
    AndThen(validate_field("message", self.message, MESSAGE_LIMIT),
            validate_optional_field("external_id", self.external_id,
                                    EXTERNAL_ID_LIMIT))

\* AnnotationBuilder::build: validate, then move every field into an Annotation
AnnotationBuilder_build(self) ==
    AndThen(AnnotationBuilder_validate_fields(self),
            Ok([message |-> self.message, severity |-> self.severity,
                annotation_type |-> self.annotation_type, path |-> self.path,
                line |-> self.line, link |-> self.link,
                external_id |-> self.external_id]))

\* #[serde(rename_all = "UPPERCASE")] on Severity
Severity_serialize(x) ==
    CASE x = "Low" -> "LOW" [] x = "Medium" -> "MEDIUM" [] x = "High" -> "HIGH"

\* #[serde(rename_all = "SCREAMING_SNAKE_CASE")] on Type
\* variant: rename_all = "UPPERCASE"
Type_serialize_upper(x) ==
    CASE x = "Vulnerability" -> "VULNERABILITY" [] x = "CodeSmell" -> "CODESMELL"
      [] x = "Bug" -> "BUG"
Type_serialize(x) ==
    CASE x = "Vulnerability" -> "VULNERABILITY" [] x = "CodeSmell" -> "CODE_SMELL"
      [] x = "Bug" -> "BUG"

Severity_json(x) == JLit(Severity_serialize(x))
Type_json(x) == JLit(Type_serialize(x))

\* Annotation: #[serde(rename_all = "camelCase")], annotation_type renamed "type"
\* variant: no skip_serializing_if on the Option fields
Annotation_serialize_nulls(self) ==
    Member("message", JStr(self.message))
    \o Member("severity", Severity_json(self.severity))
    \o OptMember_null("type", self.annotation_type, Type_json(self.annotation_type.v))
    \o OptMember_null("path", self.path, JStr(self.path.v))
    \o OptMember_null("line", self.line, JNum(self.line.v))
    \o OptMember_null("link", self.link, JStr(self.link.v))
    \o OptMember_null("externalId", self.external_id, JStr(self.external_id.v))
Annotation_serialize(self) ==
    Member("message", JStr(self.message))
    \o Member("severity", Severity_json(self.severity))
    \o OptMember("type", self.annotation_type, Type_json(self.annotation_type.v))
    \o OptMember("path", self.path, JStr(self.path.v))
    \o OptMember("line", self.line, JNum(self.line.v))
    \o OptMember("link", self.link, JStr(self.link.v))
    \o OptMember("externalId", self.external_id, JStr(self.external_id.v))

\* TryFrom<Annotation> for String / for Value: validate, then encode
Annotation_try_from(value) ==
    AndThen(Annotation_validate_fields(value), Ok(Annotation_serialize(value)))

Severity_deserialize(j) == CHOOSE x \in Severity : Severity_serialize(x) = j.lit
Type_deserialize(j) == CHOOSE x \in Type : Type_serialize(x) = j.lit
Line_deserialize(j) == j.n

Annotation_deserialize(members) ==
    IF ~(/\ HasKey(members, "message") /\ Get(members, "message").t = "string"
         /\ HasKey(members, "severity") /\ Get(members, "severity").t = "string")
    THEN Err(SerdeError)
    ELSE Ok([message |-> Get(members, "message").s,
             severity |-> Severity_deserialize(Get(members, "severity")),
             annotation_type |-> Field(members, "type",
                   Type_deserialize(Get(members, "type"))),
             path |-> Field(members, "path",
                   Text_deserialize(Get(members, "path"))),
             line |-> Field(members, "line",
                   Line_deserialize(Get(members, "line"))),
             link |-> Field(members, "link",
                   Text_deserialize(Get(members, "link"))),
             external_id |-> Field(members, "externalId",
                   Text_deserialize(Get(members, "externalId")))])

(***************************************************************************)
(* Vocabulary of the properties: the fields with a documented limit, the   *)
(* limit of each, and the length of a field of a given set of field        *)
(* values (an absent optional field has nothing to measure).               *)
(***************************************************************************)
TextFields(kind) ==
    IF kind = "report" THEN {"title", "details", "reporter"}
    ELSE {"message", "external_id"}

\* the limited fields in the documented order of the checks
LimitedFields(kind) ==
    IF kind = "report" THEN <<"title", "details", "reporter", "data">>
    ELSE <<"message", "external_id">>

DocLimit(n) ==
    CASE n = "title" -> 450 [] n = "details" -> 2000 [] n = "reporter" -> 450
      [] n = "data" -> 6 [] n = "message" -> 2000 [] n = "external_id" -> 450

IsPresent(f, n) == IF n \in {"title", "message"} THEN TRUE ELSE f[n].some

\* the length of field n as the program's length operation gives it
Measured(f, n) ==
    IF n \in {"title", "message"} THEN StrLen(f[n])
    ELSE IF ~f[n].some THEN 0
    ELSE IF n = "data" THEN Len(f[n].v)
    ELSE StrLen(f[n].v)

Exceeds(f, n) == Measured(f, n) > DocLimit(n)

\* position of the first field over its limit, 0 when there is none
FirstExceeding(kind, f) ==
    LET names == LimitedFields(kind)
        over == {i \in DOMAIN names : Exceeds(f, names[i])}
    IN  IF over = {} THEN 0 ELSE CHOOSE i \in over : \A j \in over : i <= j

\* a setter call that puts a value within the limit where the builder held
\* one over the limit
Replaces(kind, f, field, x) ==
    /\ \E i \in DOMAIN LimitedFields(kind) : LimitedFields(kind)[i] = field
    /\ Exceeds(f, field)
    /\ ~Exceeds([f EXCEPT ![field] = Some(x)], field)

(***************************************************************************)
(* The state machine.                                                      *)
(***************************************************************************)
Nothing == [kind |-> "none"]

Init ==
    /\ builder = Nothing
    /\ built = Nothing
    /\ out = Nothing
    /\ decoded = Nothing
    /\ out2 = Nothing
    /\ container = Nothing
    /\ cout = Nothing
    /\ hist = Nothing

\* ReportBuilder::new(title)
ReportBuilder_new ==
    /\ builder.kind = "none" /\ built.kind = "none" /\ container.kind = "none"
    /\ \E title \in LimitTexts(TITLE_LIMIT) :
         builder' = [kind |-> "report",
                     f |-> [title |-> title, details |-> None, result |-> None,
                            data |-> None, reporter |-> None, link |-> None,
                            logo_url |-> None, report_type |-> None]]
    /\ hist' = [kind |-> "report", last |-> builder'.f, replaced |-> FALSE]
    /\ UNCHANGED <<container, cout, built, out, decoded, out2>>

\* the calls made so far: the last argument given for each field, and
\* whether a call replaced a value over its limit by one within it
ReportCalls(field, x) ==
    [hist EXCEPT !.last[field] = Some(x),
                 !.replaced = @ \/ Replaces("report", builder.f, field, x)]

\* variant: a setter keeps the value the field already holds
ReportSetter_keepFirst(field, values) ==
    /\ builder.kind = "report"
    /\ \E x \in values :
         /\ builder' = IF builder.f[field].some THEN builder
                       ELSE [builder EXCEPT !.f[field] = Some(x)]
         /\ hist' = ReportCalls(field, x)
    /\ UNCHANGED <<container, cout, built, out, decoded, out2>>
\* a setter: self.field = Some(x), and the builder is returned
ReportSetter(field, values) ==
    /\ builder.kind = "report"
    /\ \E x \in values :
         /\ builder' = [builder EXCEPT !.f[field] = Some(x)]
         /\ hist' = ReportCalls(field, x)
    /\ UNCHANGED <<container, cout, built, out, decoded, out2>>

ReportBuilder_details == ReportSetter("details", LimitTexts(DETAILS_LIMIT))
ReportBuilder_result == ReportSetter("result", ReportResult)
ReportBuilder_data == ReportSetter("data", DataInputs)
ReportBuilder_reporter == ReportSetter("reporter", LimitTexts(REPORTER_LIMIT))
ReportBuilder_link == ReportSetter("link", FreeTexts)
ReportBuilder_logo_url == ReportSetter("logo_url", FreeTexts)
ReportBuilder_report_type == ReportSetter("report_type", ReportType)

\* variant: build(&self) leaves the builder with the caller
ReportBuild_borrowed ==
    /\ builder.kind = "report"
    /\ built' = [kind |-> "report", origin |-> "build", src |-> builder.f,
                 res |-> ReportBuilder_build(builder.f)]
    /\ UNCHANGED <<hist, container, cout, builder, out, decoded, out2>>
\* ReportBuilder::build(self): consumes the builder
ReportBuild ==
    /\ builder.kind = "report"
    /\ built' = [kind |-> "report", origin |-> "build", src |-> builder.f,
                 res |-> ReportBuilder_build(builder.f)]
    /\ builder' = [kind |-> "consumed"]
    /\ UNCHANGED <<hist, container, cout, out, decoded, out2>>

\* TryFrom<Report> for String (target "String") or Value (target "Value"):
\* consumes the Report
ReportTryFrom ==
    /\ built.kind = "report" /\ built.res.ok /\ out.kind = "none"
    /\ \E target \in {"String", "Value"} :
         out' = [kind |-> "report", target |-> target,
                 res |-> Report_try_from(built.res.v)]
    /\ UNCHANGED <<hist, container, cout, builder, built, decoded, out2>>

Opt(values) == {None} \cup {Some(x) : x \in values}

\* serde_json::from_str::<Report>: a Report from a document that some other
\* producer wrote; no validation runs
ReportFromJson ==
    /\ builder.kind = "none" /\ built.kind = "none" /\ container.kind = "none"
    /\ \E title \in Opt(LimitTexts(TITLE_LIMIT)),
          details \in Opt(LimitTexts(DETAILS_LIMIT)),
          reporter \in Opt(LimitTexts(REPORTER_LIMIT)),
          data \in Opt(DataInputs) :
         LET doc == OptMember("title", title, JStr(title.v))
                    \o OptMember("details", details, JStr(details.v))
                    \o OptMember("data", data, DataVec_serialize(data.v))
                    \o OptMember("reporter", reporter, JStr(reporter.v))
         IN  built' = [kind |-> "report", origin |-> "decode", src |-> doc,
                       res |-> Report_deserialize(doc)]
    /\ UNCHANGED <<hist, container, cout, builder, out, decoded, out2>>

\* serde_json::from_str / from_value on the document just produced
ReportDecode ==
    /\ out.kind = "report" /\ out.res.ok /\ decoded.kind = "none"
    /\ decoded' = [kind |-> "report", res |-> Report_deserialize(out.res.v)]
    /\ UNCHANGED <<hist, container, cout, builder, built, out, out2>>

\* TryFrom<Report> on the decoded Report, to the same target
ReportReencode ==
    /\ decoded.kind = "report" /\ decoded.res.ok /\ out2.kind = "none"
    /\ out2' = [kind |-> "report", target |-> out.target,
                res |-> Report_try_from(decoded.res.v)]
    /\ UNCHANGED <<hist, container, cout, builder, built, out, decoded>>

\* AnnotationBuilder::new(message, severity)
AnnotationBuilder_new ==
    /\ builder.kind = "none" /\ built.kind = "none" /\ container.kind = "none"
    /\ \E message \in LimitTexts(MESSAGE_LIMIT), severity \in Severity :
         builder' = [kind |-> "annotation",
                     f |-> [message |-> message, severity |-> severity,
                            annotation_type |-> None, path |-> None,
                            line |-> None, link |-> None, external_id |-> None]]
    /\ hist' = [kind |-> "annotation", last |-> builder'.f, replaced |-> FALSE]
    /\ UNCHANGED <<container, cout, built, out, decoded, out2>>

\* the calls made so far: the last argument given for each field, and
\* whether a call replaced a value over its limit by one within it
AnnotationCalls(field, x) ==
    [hist EXCEPT !.last[field] = Some(x),
                 !.replaced = @ \/ Replaces("annotation", builder.f, field, x)]

\* a setter: self.field = Some(x), and the builder is returned
AnnotationSetter(field, values) ==
    /\ builder.kind = "annotation"
    /\ \E x \in values :
         /\ builder' = [builder EXCEPT !.f[field] = Some(x)]
         /\ hist' = AnnotationCalls(field, x)
    /\ UNCHANGED <<container, cout, built, out, decoded, out2>>

AnnotationBuilder_annotation_type == AnnotationSetter("annotation_type", Type)
AnnotationBuilder_path == AnnotationSetter("path", FreeTexts)
AnnotationBuilder_line == AnnotationSetter("line", Lines)
AnnotationBuilder_link == AnnotationSetter("link", FreeTexts)
AnnotationBuilder_external_id ==
    AnnotationSetter("external_id", LimitTexts(EXTERNAL_ID_LIMIT))

\* AnnotationBuilder::build(self): consumes the builder
AnnotationBuild ==
    /\ builder.kind = "annotation"
    /\ built' = [kind |-> "annotation", origin |-> "build", src |-> builder.f,
                 res |-> AnnotationBuilder_build(builder.f)]
    /\ builder' = [kind |-> "consumed"]
    /\ UNCHANGED <<hist, container, cout, out, decoded, out2>>

AnnotationTryFrom ==
    /\ built.kind = "annotation" /\ built.res.ok /\ out.kind = "none"
    /\ \E target \in {"String", "Value"} :
         out' = [kind |-> "annotation", target |-> target,
                 res |-> Annotation_try_from(built.res.v)]
    /\ UNCHANGED <<hist, container, cout, builder, built, decoded, out2>>

\* serde_json::from_str::<Annotation>: no validation runs
AnnotationFromJson ==
    /\ builder.kind = "none" /\ built.kind = "none" /\ container.kind = "none"
    /\ \E message \in Opt(LimitTexts(MESSAGE_LIMIT)), severity \in Severity,
          annotation_type \in Opt(Type),
          external_id \in Opt(LimitTexts(EXTERNAL_ID_LIMIT)) :
         LET doc == OptMember("message", message, JStr(message.v))
                    \o Member("severity", Severity_json(severity))
                    \o OptMember("type", annotation_type, Type_json(annotation_type.v))
                    \o OptMember("externalId", external_id, JStr(external_id.v))
         IN  built' = [kind |-> "annotation", origin |-> "decode", src |-> doc,
                       res |-> Annotation_deserialize(doc)]
    /\ UNCHANGED <<hist, container, cout, builder, out, decoded, out2>>

AnnotationDecode ==
    /\ out.kind = "annotation" /\ out.res.ok /\ decoded.kind = "none"
    /\ decoded' = [kind |-> "annotation",
                   res |-> Annotation_deserialize(out.res.v)]
    /\ UNCHANGED <<hist, container, cout, builder, built, out, out2>>

AnnotationReencode ==
    /\ decoded.kind = "annotation" /\ decoded.res.ok /\ out2.kind = "none"
    /\ out2' = [kind |-> "annotation", target |-> out.target,
                res |-> Annotation_try_from(decoded.res.v)]
    /\ UNCHANGED <<hist, container, cout, builder, built, out, decoded>>

(***************************************************************************)
(* annotation.rs: the Annotations container.                               *)
(***************************************************************************)
\* the default cap of the server on the annotations of a report
SERVER_CAP == 1000

\* Annotation values a caller can hold: two built by the builder, and one
\* decoded from a document whose message is over its limit
AnnotationSamples ==
    << AnnotationBuilder_build(
           [message |-> Text(ShortLen, 0), severity |-> "Low",
            annotation_type |-> None, path |-> None, line |-> None,
            link |-> None, external_id |-> None]).v,
       AnnotationBuilder_build(
           [message |-> Text(MESSAGE_LIMIT, 0), severity |-> "Medium",
            annotation_type |-> Some("Bug"), path |-> Some(Text(ShortLen, 0)),
            line |-> Some(42), link |-> None,
            external_id |-> Some(Text(ShortLen, 0))]).v,
       Annotation_deserialize(
           Member("message", JStr(Text(MESSAGE_LIMIT + Over, 0)))
           \o Member("severity", Severity_json("High"))).v >>

\* n annotations taken in turn from the samples, starting after the k-th
AnnotationVec(n, k) ==
    [i \in 1..n |-> AnnotationSamples[((i + k - 1) % Len(AnnotationSamples)) + 1]]

\* variant: the container keeps at most SERVER_CAP annotations
Annotations_new_capped(annotations) ==
    [annotations |->
        IF Len(annotations) > SERVER_CAP
        THEN SubSeq(annotations, 1, SERVER_CAP) ELSE annotations]
\* Annotations::new(annotations)
Annotations_new(annotations) == [annotations |-> annotations]

\* Annotations (Serialize derive): each element through Annotation's derive
Annotations_serialize(self) ==
    Member("annotations",
           JArr([i \in DOMAIN self.annotations |->
                    JObj(Annotation_serialize(self.annotations[i]))]))

AnnotationsNew ==
    /\ builder.kind = "none" /\ built.kind = "none" /\ container.kind = "none"
    /\ \E n \in 0..2 \cup SERVER_CAP..(SERVER_CAP + Over),
          k \in 0..(Len(AnnotationSamples) - 1) :
         container' = [kind |-> "annotations", input |-> AnnotationVec(n, k),
                       v |-> Annotations_new(AnnotationVec(n, k))]
    /\ UNCHANGED <<hist, builder, built, out, decoded, out2, cout>>

\* serde_json::to_string / to_value on the container
AnnotationsSerialize ==
    /\ container.kind = "annotations" /\ cout.kind = "none"
    /\ \E target \in {"String", "Value"} :
         cout' = [kind |-> "annotations", target |-> target,
                  res |-> Ok(Annotations_serialize(container.v))]
    /\ UNCHANGED <<hist, builder, built, out, decoded, out2, container>>

Next ==
    \/ ReportBuilder_new
    \/ ReportBuilder_details
    \/ ReportBuilder_result
    \/ ReportBuilder_data
    \/ ReportBuilder_reporter
    \/ ReportBuilder_link
    \/ ReportBuilder_logo_url
    \/ ReportBuilder_report_type
    \/ ReportBuild
    \/ ReportTryFrom
    \/ ReportFromJson
    \/ ReportDecode
    \/ ReportReencode
    \/ AnnotationBuilder_new
    \/ AnnotationBuilder_annotation_type
    \/ AnnotationBuilder_path
    \/ AnnotationBuilder_line
    \/ AnnotationBuilder_link
    \/ AnnotationBuilder_external_id
    \/ AnnotationBuild
    \/ AnnotationTryFrom
    \/ AnnotationFromJson
    \/ AnnotationDecode
    \/ AnnotationReencode
    \/ AnnotationsNew
    \/ AnnotationsSerialize

Spec == Init /\ [][Next]_vars
\* the field values under validation: the builder's at build(), or the
\* decoded value's
HasSubject ==
    /\ built.kind \in {"report", "annotation"}
    /\ built.origin = "build" \/ built.res.ok
Subject == IF built.origin = "build" THEN built.src ELSE built.res.v

Built == built.kind # "none" /\ built.origin = "build"
Serialized == out.kind # "none"

IsFieldTooLong(res) == ~res.ok /\ res.e.kind = "FieldTooLong"

(***************************************************************************)
(* C1: for every length-limited text field with limit L, a Report or       *)
(* Annotation whose field has length exactly L and whose other fields are  *)
(* within limits builds and serializes successfully, and one whose field   *)
(* has length L+1 fails (at build, or at serialization when the value was  *)
(* decoded) with FieldTooLong carrying limit L.  Length is the length the  *)
(* program measures (String::len).                                         *)
(***************************************************************************)
C1_LengthBoundary ==
    HasSubject =>
      \A n \in TextFields(built.kind) :
        (\A i \in DOMAIN LimitedFields(built.kind) :
            LimitedFields(built.kind)[i] # n
              => ~Exceeds(Subject, LimitedFields(built.kind)[i]))
        => /\ (IsPresent(Subject, n) /\ Measured(Subject, n) = DocLimit(n))
                => /\ Built => built.res.ok
                   /\ Serialized => out.res.ok
           /\ (Measured(Subject, n) = DocLimit(n) + 1)
                => /\ Built => /\ IsFieldTooLong(built.res)
                               /\ built.res.e.limit = DocLimit(n)
                   /\ Serialized => /\ IsFieldTooLong(out.res)
                                    /\ out.res.e.limit = DocLimit(n)

C1_Witness ==
    /\ Built /\ built.kind = "report"
    /\ Measured(built.src, "title") = 450
    /\ built.src.details.some /\ Measured(built.src, "details") = 2000
    /\ Serialized /\ out.res.ok

(***************************************************************************)
(* C2: for a Report whose text fields are within their limits, build()     *)
(* succeeds when data holds at most 6 entries and otherwise fails with     *)
(* FieldTooLong{name = "data", len = number of entries, limit = 6}.        *)
(***************************************************************************)
C2_DataCardinality ==
    (/\ Built /\ built.kind = "report"
     /\ \A n \in TextFields("report") : ~Exceeds(built.src, n))
    => IF Measured(built.src, "data") <= 6
       THEN built.res.ok
       ELSE built.res = Err(FieldTooLong("data", Len(built.src.data.v), 6))

C2_Witness ==
    /\ Built /\ built.kind = "report"
    /\ built.src.data.some /\ Len(built.src.data.v) = 6
    /\ built.res.ok

(***************************************************************************)
(* C3: build() checks the fields in a fixed order (Report: title, details, *)
(* reporter, data; Annotation: message, external id) and returns the first *)
(* failure: when several limits are violated the error names the earliest  *)
(* violating field in that order.                                          *)
(***************************************************************************)
C3_ErrorOrder ==
    Built =>
      LET first == FirstExceeding(built.kind, built.src)
      IN  IF first = 0 THEN built.res.ok
          ELSE /\ IsFieldTooLong(built.res)
               /\ built.res.e.name = LimitedFields(built.kind)[first]

C3_Witness ==
    /\ Built /\ built.kind = "report"
    /\ Exceeds(built.src, "title") /\ Exceeds(built.src, "data")
    /\ IsFieldTooLong(built.res) /\ built.res.e.name = "title"

(***************************************************************************)
(* C4: every FieldTooLong produced by build() or by serialization carries  *)
(* the name of the violating field, len equal to the measured length of    *)
(* that field and limit equal to its documented limit, with len > limit.   *)
(***************************************************************************)
WellFormedError(res, kind, f) ==
    IsFieldTooLong(res) =>
      /\ \E i \in DOMAIN LimitedFields(kind) :
            res.e.name = LimitedFields(kind)[i]
      /\ res.e.len = Measured(f, res.e.name)
      /\ res.e.limit = DocLimit(res.e.name)
      /\ res.e.len > res.e.limit

C4_ErrorPayload ==
    /\ Built => WellFormedError(built.res, built.kind, built.src)
    /\ Serialized => WellFormedError(out.res, out.kind, built.res.v)

C4_Witness ==
    /\ Built /\ built.kind = "annotation"
    /\ built.src.message = Text(2001, 0)
    /\ built.res = Err(FieldTooLong("message", 2001, 2000))

(***************************************************************************)
(* C5: the length validation measures for a text field is its character    *)
(* count: the field is accepted if and only if its number of characters is *)
(* at most the limit, and the len of FieldTooLong is that number.          *)
(***************************************************************************)
\* the number of characters of a text
CharCount(s) == s.chars

CharsOf(f, n) ==
    IF n \in {"title", "message"} THEN CharCount(f[n])
    ELSE IF f[n].some THEN CharCount(f[n].v) ELSE 0

C5_CharacterCount ==
    Built =>
      /\ (/\ \A n \in TextFields(built.kind) : CharsOf(built.src, n) <= DocLimit(n)
          /\ built.kind = "report" => ~Exceeds(built.src, "data"))
         => built.res.ok
      /\ (IsFieldTooLong(built.res) /\ built.res.e.name \in TextFields(built.kind))
         => built.res.e.len = CharsOf(built.src, built.res.e.name)
(***************************************************************************)
(* Vocabulary of the JSON properties: the documented key of each field.    *)
(***************************************************************************)
RequiredFields(kind) ==
    IF kind = "report" THEN {"title"} ELSE {"message", "severity"}

OptionalFields(kind) ==
    IF kind = "report"
    THEN {"details", "result", "data", "reporter", "link", "logo_url",
          "report_type"}
    ELSE {"annotation_type", "path", "line", "link", "external_id"}

JsonKey(n) ==
    CASE n = "logo_url" -> "logoUrl" [] n = "report_type" -> "reportType"
      [] n = "annotation_type" -> "type" [] n = "external_id" -> "externalId"
      [] OTHER -> n

SerializedOk == Serialized /\ out.res.ok

(***************************************************************************)
(* C6: in the serialized JSON of a Report or an Annotation the key of an   *)
(* optional field is present if and only if the field was set on the       *)
(* builder, no member is null, and the required keys are always there, so  *)
(* a value built with only required fields has only the required keys.     *)
(***************************************************************************)
C6_OptionalKeys ==
    (Built /\ SerializedOk) =>
      LET doc == out.res.v
      IN  /\ \A n \in OptionalFields(out.kind) :
                (JsonKey(n) \in Keys(doc)) <=> built.src[n].some
          /\ \A n \in RequiredFields(out.kind) : JsonKey(n) \in Keys(doc)
          /\ Keys(doc) \subseteq
                {JsonKey(n) : n \in RequiredFields(out.kind)
                                    \cup OptionalFields(out.kind)}
          /\ \A i \in DOMAIN doc : doc[i][2].t # "null"

C6_Witness ==
    /\ Built /\ SerializedOk /\ out.kind = "annotation"
    /\ \A n \in OptionalFields("annotation") : ~built.src[n].some
    /\ Keys(out.res.v) = {"message", "severity"}

(***************************************************************************)
(* C7: serialization re-runs the validation of build() before encoding: a  *)
(* value that came from decoding and violates a limit yields no JSON, the  *)
(* conversion returns FieldTooLong for the first violating field.          *)
(***************************************************************************)
C7_Revalidation ==
    (Serialized /\ built.res.ok) =>
      LET first == FirstExceeding(out.kind, built.res.v)
      IN  IF first = 0 THEN out.res.ok
          ELSE /\ IsFieldTooLong(out.res)
               /\ out.res.e.name = LimitedFields(out.kind)[first]

C7_Witness ==
    /\ built.kind = "report" /\ built.origin = "decode" /\ built.res.ok
    /\ ~Exceeds(built.res.v, "title") /\ Exceeds(built.res.v, "details")
    /\ Exceeds(built.res.v, "data")
    /\ Serialized /\ IsFieldTooLong(out.res) /\ out.res.e.name = "details"

DocTag(variant) ==
    CASE variant = "Boolean" -> "BOOLEAN" [] variant = "Date" -> "DATE"
      [] variant = "Duration" -> "DURATION" [] variant = "Link" -> "LINK"
      [] variant = "Number" -> "NUMBER" [] variant = "Percentage" -> "PERCENTAGE"
      [] variant = "Text" -> "TEXT"

IsRawPayload(j, p) ==
    CASE p.variant = "Boolean" -> j.t = "bool" /\ j.b = p.b
      [] p.variant \in {"Date", "Duration", "Number", "Percentage"} ->
            j.t = "number" /\ j.n = p.n
      [] p.variant = "Text" -> j.t = "string" /\ j.s = p.s
      [] p.variant = "Link" ->
            /\ j.t = "object" /\ Len(j.obj) = 2
            /\ Keys(j.obj) = {"linktext", "href"}
            /\ Get(j.obj, "linktext") = JStr(p.s)
            /\ Get(j.obj, "href") = JStr(p.href)

C9_ParameterTagging ==
    (SerializedOk /\ out.kind = "report" /\ built.res.v.data.some) =>
      LET vec == built.res.v.data.v
          arr == Get(out.res.v, "data").arr
      IN  /\ Get(out.res.v, "data").t = "array"
          /\ Len(arr) = Len(vec)
          /\ \A i \in DOMAIN vec :
                /\ arr[i].t = "object" /\ Len(arr[i].obj) = 3
                /\ Keys(arr[i].obj) = {"title", "type", "value"}
                /\ Get(arr[i].obj, "title") = JStr(vec[i].title)
                /\ Get(arr[i].obj, "type") = JLit(DocTag(vec[i].parameter.variant))
                /\ IsRawPayload(Get(arr[i].obj, "value"), vec[i].parameter)

C9_Witness ==
    /\ SerializedOk /\ out.kind = "report" /\ built.res.v.data.some
    /\ Len(built.res.v.data.v) = 6
    /\ \E i \in 1..6 : built.res.v.data.v[i].parameter.variant = "Link"
    /\ \E i \in 1..6 : built.res.v.data.v[i].parameter.variant = "Text"

(***************************************************************************)
(* C10: enum values serialize to fixed, case-sensitive strings: result to  *)
(* PASS/FAIL, reportType to SECURITY/COVERAGE/TEST/BUG, severity to        *)
(* LOW/MEDIUM/HIGH, the annotation type to VULNERABILITY/CODE_SMELL/BUG    *)
(* under the key type; the mapping is injective within each enum.          *)
(***************************************************************************)
DocEnum(x) ==
    CASE x = "Pass" -> "PASS" [] x = "Fail" -> "FAIL"
      [] x = "Security" -> "SECURITY" [] x = "Coverage" -> "COVERAGE"
      [] x = "Test" -> "TEST" [] x = "Bug" -> "BUG"
      [] x = "Low" -> "LOW" [] x = "Medium" -> "MEDIUM" [] x = "High" -> "HIGH"
      [] x = "Vulnerability" -> "VULNERABILITY" [] x = "CodeSmell" -> "CODE_SMELL"

EnumMember(doc, key, opt) ==
    opt.some => HasKey(doc, key) /\ Get(doc, key) = JLit(DocEnum(opt.v))

C10_EnumEncoding ==
    /\ (SerializedOk /\ out.kind = "report") =>
          /\ EnumMember(out.res.v, "result", built.res.v.result)
          /\ EnumMember(out.res.v, "reportType", built.res.v.report_type)
    /\ (SerializedOk /\ out.kind = "annotation") =>
          /\ EnumMember(out.res.v, "severity", Some(built.res.v.severity))
          /\ EnumMember(out.res.v, "type", built.res.v.annotation_type)
          /\ ~HasKey(out.res.v, "annotationType")
    /\ \A a, b \in ReportResult :
          ReportResult_serialize(a) = ReportResult_serialize(b) => a = b
    /\ \A a, b \in ReportType :
          ReportType_serialize(a) = ReportType_serialize(b) => a = b
    /\ \A a, b \in Severity : Severity_serialize(a) = Severity_serialize(b) => a = b
    /\ \A a, b \in Type : Type_serialize(a) = Type_serialize(b) => a = b

C10_Witness ==
    /\ SerializedOk /\ out.kind = "annotation"
    /\ built.res.v.severity = "Medium"
    /\ built.res.v.annotation_type = Some("CodeSmell")
    /\ Get(out.res.v, "type") = JLit("CODE_SMELL")
(***************************************************************************)
(* C11: a Percentage parameter carried by a Report that builds and         *)
(* serializes successfully always holds an integer between 0 and 100.      *)
(***************************************************************************)
C11_PercentageRange ==
    (Built /\ SerializedOk /\ out.kind = "report" /\ built.res.v.data.some) =>
      \A i \in DOMAIN built.res.v.data.v :
        built.res.v.data.v[i].parameter.variant = "Percentage"
          => built.res.v.data.v[i].parameter.n \in 0..100
(***************************************************************************)
(* C12: the Annotations container is constructed from any sequence of      *)
(* Annotation values of any length (more than 1000, with duplicates)       *)
(* without error, keeps the annotations in the order given and serializes  *)
(* as {"annotations": [...]} with the elements in that order; it validates *)
(* nothing itself.                                                         *)
(***************************************************************************)
C12_AnnotationsContainer ==
    /\ container.kind # "none"
         => container.v.annotations = container.input
    /\ cout.kind # "none"
         => /\ cout.res.ok
            /\ Len(cout.res.v) = 1 /\ Keys(cout.res.v) = {"annotations"}
            /\ LET arr == Get(cout.res.v, "annotations")
               IN  /\ arr.t = "array"
                   /\ Len(arr.arr) = Len(container.input)
                   /\ \A i \in DOMAIN container.input :
                        arr.arr[i] = JObj(Annotation_serialize(container.input[i]))

C12_Witness ==
    /\ cout.kind = "annotations" /\ cout.res.ok
    /\ Len(container.input) = 1001
    /\ container.input[1] = container.input[4]
    /\ Exceeds(container.input[3], "message")
    /\ Len(Get(cout.res.v, "annotations").arr) = 1001
(***************************************************************************)
(* C13: a builder is either Accumulating (setters apply, no outcome yet)   *)
(* or consumed by build() into a terminal outcome, a value or an error:    *)
(* the only steps of an accumulating builder are a setter and build();     *)
(* once build() has returned no setter and no second build() applies, and  *)
(* the outcome, error included, never gives way to an accumulating         *)
(* builder.                                                                *)
(***************************************************************************)
Accumulating == builder.kind \in {"report", "annotation"}
Consumed == builder.kind = "consumed"

C13_BuilderLifecycle ==
    [][ /\ Accumulating => built.kind = "none"
        /\ Consumed => /\ built.kind \in {"report", "annotation"}
                       /\ built.origin = "build"
                       /\ builder' = builder /\ built' = built
        /\ (Accumulating /\ builder' # builder) =>
              \/ /\ builder'.kind = builder.kind
                 /\ built' = built
              \/ /\ builder'.kind = "consumed"
                 /\ built'.kind = builder.kind /\ built'.origin = "build"
                 /\ built'.src = builder.f
      ]_vars

C13_Witness ==
    /\ Consumed /\ built.kind = "report" /\ ~built.res.ok
    /\ ~Serialized
(***************************************************************************)
(* C14: constructors and setters validate nothing: every setter call,      *)
(* whatever its value, is accepted and stored, and nothing is reported     *)
(* before build(); build() decides on the value last set for each field    *)
(* (a value over its limit that was replaced by one within it causes no    *)
(* error), and an optional field never set is never the one reported.      *)
(***************************************************************************)
C14_SettersDoNotValidate ==
    /\ Accumulating => /\ built.kind = "none"
                       /\ builder.f = hist.last
    /\ Built =>
         LET first == FirstExceeding(built.kind, hist.last)
         IN  IF first = 0 THEN built.res.ok
             ELSE /\ IsFieldTooLong(built.res)
                  /\ built.res.e.name = LimitedFields(built.kind)[first]
                  /\ IsPresent(hist.last, built.res.e.name)

C14_Witness ==
    /\ Built /\ built.kind = "report" /\ hist.replaced
    /\ built.res.ok
    /\ hist.last.details.some /\ ~hist.last.reporter.some
\* the builder's build() and the value's TryFrom, applied to the same fields
ViaBuilder(kind, fields) ==
    IF kind = "report" THEN ReportBuilder_build(fields)
    ELSE AnnotationBuilder_build(fields)
ViaValue(kind, fields) ==
    IF kind = "report" THEN Report_try_from(fields)
    ELSE Annotation_try_from(fields)

(***************************************************************************)
(* C15: the builder's validation and the value's validation accept the     *)
(* same field values, and build() moves every field unchanged into the     *)
(* value.  When build() succeeds the value holds the builder's fields and  *)
(* its serialization succeeds; when build() fails, the same fields placed  *)
(* in a value fail serialization with the same error; and a value that     *)
(* did not come from a builder serializes exactly when a builder holding   *)
(* its fields would build, with the same error otherwise.                  *)
(***************************************************************************)
C15_ValidationEquivalence ==
    /\ Built =>
         /\ built.res.ok =>
              /\ built.res.v = built.src
              /\ ViaValue(built.kind, built.res.v).ok
              /\ Serialized => /\ out.res.ok
                               /\ out.res = ViaValue(built.kind, built.src)
         /\ ~built.res.ok =>
              /\ IsFieldTooLong(built.res)
              /\ ViaValue(built.kind, built.src) = built.res
    /\ (HasSubject /\ built.origin = "decode" /\ Serialized) =>
         LET viaBuilder == ViaBuilder(built.kind, built.res.v)
         IN  /\ out.res.ok <=> viaBuilder.ok
             /\ ~out.res.ok => out.res = viaBuilder

C15_Witness ==
    /\ Built /\ built.kind = "annotation" /\ ~built.res.ok
    /\ built.res.e.name = "external_id"
    /\ ViaValue("annotation", built.src) = built.res
====
